---- MODULE Spec2Model ----
(***************************************************************************)
(* Model of the date-watermark batch tool (src/main.py).                   *)
(*                                                                         *)
(* Strings are sequences of one-character strings, so that path joining,   *)
(* basename/dirname, glob matching, upper-casing and number formatting are *)
(* computed the way the Python code computes them.  The file system is a   *)
(* function from resolved paths (sequences of path components) to the      *)
(* content stored there.                                                   *)
(***************************************************************************)
EXTENDS Integers, Sequences, FiniteSets, TLC

VARIABLES
    fs,             \* file system: resolved path -> content record
    argv,           \* parsed command line: [image_path, position]
    today,          \* system date <<year, month, day>> (datetime.now())
    run,            \* number of the current invocation of main()
    pc,             \* position of the invocation inside main()
    input_dir,      \* main: input_dir
    image_files,    \* main: image_files (the working set, a list of paths)
    output_dir,     \* main: output_dir
    idx,            \* main: number of loop iterations already taken
    success_count,  \* main: success_count
    exit_status,    \* process exit status (-1 while running)
    footer,         \* the footer tally printed at line 163, <<>> before
    calls,          \* history: one record per add_watermark invocation
    fs_start,       \* history: fs when the current invocation started
    prev,           \* history: what the previous invocation left behind
    pos_call        \* a single get_position call: its arguments and result

vars == <<fs, argv, today, run, pc, input_dir, image_files, output_dir, idx,
          success_count, exit_status, footer, calls, fs_start, prev, pos_call>>

(***************************************************************************)
(* Bounds of the model.                                                    *)
(***************************************************************************)
MaxFiles == 2       \* entries of the input directory
MaxRuns == 2        \* invocations of main() on the same file system
MaxImg == 24        \* image width/height in get_position calls
MaxText == 3        \* text width/height in get_position calls

(***************************************************************************)
(* Characters and strings.                                                 *)
(***************************************************************************)
LowerLetters == <<"a","b","c","d","e","f","g","h","i","j","k","l","m",
                  "n","o","p","q","r","s","t","u","v","w","x","y","z">>
UpperLetters == <<"A","B","C","D","E","F","G","H","I","J","K","L","M",
                  "N","O","P","Q","R","S","T","U","V","W","X","Y","Z">>
DigitChars == <<"0","1","2","3","4","5","6","7","8","9">>

Range(s) == { s[k] : k \in DOMAIN s }

\* str.upper() / str.lower(), character by character
UpperChar(c) ==
    IF \E k \in 1..26 : LowerLetters[k] = c
    THEN UpperLetters[CHOOSE k \in 1..26 : LowerLetters[k] = c]
    ELSE c
LowerChar(c) ==
    IF \E k \in 1..26 : UpperLetters[k] = c
    THEN LowerLetters[CHOOSE k \in 1..26 : UpperLetters[k] = c]
    ELSE c
upper(s) == [k \in DOMAIN s |-> UpperChar(s[k])]
lower(s) == [k \in DOMAIN s |-> LowerChar(s[k])]

HasSuffix(s, t) ==
    /\ Len(s) >= Len(t)
    /\ SubSeq(s, Len(s) - Len(t) + 1, Len(s)) = t

\* str.rfind(c) + 1: the index of the last occurrence of c, 0 when absent
RFind1(s, c) ==
    IF \E k \in DOMAIN s : s[k] = c
    THEN CHOOSE k \in DOMAIN s : s[k] = c /\ \A j \in (k+1)..Len(s) : s[j] # c
    ELSE 0

\* str.rstrip(c)
RECURSIVE RStrip(_, _)
RStrip(s, c) ==
    IF s # <<>> /\ s[Len(s)] = c THEN RStrip(SubSeq(s, 1, Len(s) - 1), c) ELSE s

\* str(n) of a natural number: decimal digits, no padding
RECURSIVE Str(_)
Str(n) == IF n < 10 THEN <<DigitChars[n + 1]>>
          ELSE Str(n \div 10) \o <<DigitChars[(n % 10) + 1]>>

\* zero padding to a field of at least width characters (strftime %m, %d, %Y)
RECURSIVE ZeroPad(_, _)
ZeroPad(s, width) == IF Len(s) >= width THEN s ELSE ZeroPad(<<"0">> \o s, width)

(***************************************************************************)
(* posixpath.                                                              *)
(***************************************************************************)
Sep == "/"

\* os.path.join(a, b)
join(a, b) ==
    IF b # <<>> /\ b[1] = Sep THEN b
    ELSE IF a = <<>> \/ a[Len(a)] = Sep THEN a \o b
    ELSE a \o <<Sep>> \o b

\* os.path.basename(p)
basename(p) == SubSeq(p, RFind1(p, Sep) + 1, Len(p))

\* os.path.dirname(p)
dirname(p) ==
    LET head == SubSeq(p, 1, RFind1(p, Sep))
    IN  IF head # <<>> /\ Range(head) # {Sep} THEN RStrip(head, Sep) ELSE head

\* The components a path names, as the kernel resolves it from the working
\* directory: empty components and "." are skipped.
RECURSIVE Resolve(_)
Resolve(p) ==
    IF p = <<>> THEN <<>>
    ELSE LET cut  == IF \E k \in DOMAIN p : p[k] = Sep
                     THEN CHOOSE k \in DOMAIN p :
                              p[k] = Sep /\ \A j \in 1..(k-1) : p[j] # Sep
                     ELSE Len(p) + 1
             comp == SubSeq(p, 1, cut - 1)
             rest == SubSeq(p, cut + 1, Len(p))
         IN  IF comp = <<>> \/ comp = <<".">> THEN Resolve(rest)
             ELSE <<comp>> \o Resolve(rest)

(***************************************************************************)
(* File contents.  Every entry of the file system is a record of one       *)
(* shape: kind is "dir", "data" (bytes that are no decodable image) or     *)
(* "image"; an image has its pixel size, its EXIF state and the watermark  *)
(* drawn on it (<<>> when none, else <<text, x, y>>).                      *)
(***************************************************************************)
Exif(state, y, m, d, t) == [state |-> state, y |-> y, m |-> m, d |-> d, t |-> t]
NoExif == Exif("none", 0, 0, 0, <<0, 0, 0>>)

DirEntry  == [kind |-> "dir",  w |-> 0, h |-> 0, exif |-> NoExif, mark |-> <<>>]
DataEntry == [kind |-> "data", w |-> 0, h |-> 0, exif |-> NoExif, mark |-> <<>>]
ImageEntry(w, h, exif, mark) ==
    [kind |-> "image", w |-> w, h |-> h, exif |-> exif, mark |-> mark]

\* os.path.exists / os.path.isfile / os.path.isdir on file system f
\* (the working directory, with no components, always exists; "" names nothing)
exists(f, p) == p # <<>> /\ (Resolve(p) = <<>> \/ Resolve(p) \in DOMAIN f)
isdir(f, p)  == p # <<>> /\ (Resolve(p) = <<>> \/
                (Resolve(p) \in DOMAIN f /\ f[Resolve(p)].kind = "dir"))
isfile(f, p) == Resolve(p) \in DOMAIN f /\ f[Resolve(p)].kind # "dir"

\* os.listdir: the names directly inside the directory with components d
Listing(f, d) ==
    { q[Len(q)] : q \in { r \in DOMAIN f :
                            Len(r) = Len(d) + 1 /\ SubSeq(r, 1, Len(d)) = d } }

(***************************************************************************)
(* Exceptions.  Every error the model raises is named by its Python class; *)
(* all of them derive from Exception.                                      *)
(***************************************************************************)
NoExc == "none"

\* The narrower handler `except OSError:`
CaughtOnlyOSError(e) == e = "OSError"

\* `except Exception as e:` (lines 23, 102, 159) catches e
CaughtByExceptException(e) ==
    e \in {"OSError", "AttributeError", "ValueError", "FileExistsError"}

(***************************************************************************)
(* glob.                                                                   *)
(***************************************************************************)
\* fnmatch.fnmatchcase for the patterns the program uses: a leading "*"
\* followed by literal characters (posix: the comparison is case-sensitive)
fnmatch(name, pat) ==
    IF pat # <<>> /\ pat[1] = "*" THEN HasSuffix(name, Tail(pat))
    ELSE name = pat

\* glob._ishidden: names starting with "." are only matched by patterns
\* that start with "."
ishidden(name) == name # <<>> /\ name[1] = "."

\* The set of paths glob.glob(pathname) returns
glob(f, pathname) ==
    LET d   == dirname(pathname)
        pat == basename(pathname)
    IN  IF d # <<>> /\ ~isdir(f, d) THEN {}
        ELSE { join(d, n) : n \in { m \in Listing(f, Resolve(d)) :
                                      /\ fnmatch(m, pat)
                                      /\ (ishidden(pat) \/ ~ishidden(m)) } }

\* All orders in which a finite set may be listed
Orders(S) ==
    { s \in [1..Cardinality(S) -> S] : \A a, b \in DOMAIN s : s[a] = s[b] => a = b }

image_extensions ==
    << <<"*",".","j","p","g">>, <<"*",".","j","p","e","g">>,
       <<"*",".","p","n","g">>, <<"*",".","b","m","p">>,
       <<"*",".","t","i","f","f">>, <<"*",".","w","e","b","p">> >>

\* Lines 130-133: for each pattern, the matches of the pattern and then of its
\* upper-cased form are appended; glob returns each set in arbitrary order.
RECURSIVE ExtendAll(_, _, _)
ExtendAll(f, dir, k) ==
    IF k = 0 THEN { <<>> }
    ELSE LET ext == image_extensions[k]
             lo  == glob(f, join(dir, ext))
             up  == glob(f, join(dir, upper(ext)))
         IN  { pre \o a \o b : pre \in ExtendAll(f, dir, k - 1),
                               a \in Orders(lo), b \in Orders(up) }

(***************************************************************************)
(* get_exif_datetime (lines 9-25).                                         *)
(***************************************************************************)
IsLeap(y) == (y % 4 = 0 /\ y % 100 # 0) \/ y % 400 = 0
DaysInMonth(y, m) ==
    IF m = 2 THEN (IF IsLeap(y) THEN 29 ELSE 28)
    ELSE IF m \in {4, 6, 9, 11} THEN 30 ELSE 31

\* datetime.strptime(value, '%Y:%m:%d %H:%M:%S') accepts the fields
ValidTimestamp(y, m, d, t) ==
    /\ y \in 1..9999
    /\ m \in 1..12
    /\ d \in 1..DaysInMonth(y, m)
    /\ t[1] \in 0..23 /\ t[2] \in 0..59 /\ t[3] \in 0..59

Backslash == "\\"

\* Line 21: f"{dt.year}\\{dt.month}\\{dt.day}"
FormatExifDate(y, m, d) ==
    Str(y) \o <<Backslash>> \o Str(m) \o <<Backslash>> \o Str(d)

\* Lines 19-22: the tag value e of DateTimeOriginal is parsed and formatted
ParseTag(e) ==
    IF e.state \in {"none", "notag", "empty"}
    THEN [exc |-> NoExc, none |-> TRUE, text |-> <<>>]
    ELSE IF e.state = "garbage" \/ ~ValidTimestamp(e.y, e.m, e.d, e.t)
    THEN [exc |-> "ValueError", none |-> TRUE, text |-> <<>>]
    ELSE [exc |-> NoExc, none |-> FALSE, text |-> FormatExifDate(e.y, e.m, e.d)]

\* Lines 11-22, the body of the try, on the entry at resolved path p: exc is
\* the class of the exception it raises (NoExc when it returns), none tells
\* whether it returns None.
ExifTryBody(f, p) ==
    IF p \notin DOMAIN f \/ f[p].kind # "image"
    THEN [exc |-> "OSError", none |-> TRUE, text |-> <<>>]
    ELSE IF f[p].exif.state = "no_method"
    THEN [exc |-> "AttributeError", none |-> TRUE, text |-> <<>>]
    ELSE ParseTag(f[p].exif)

\* Lines 10, 23-25: the try/except around the body's outcome b; exc is the
\* exception that leaves the function, logged tells whether line 24 printed.
ExifHandler(b) ==
    IF b.exc = NoExc
    THEN [exc |-> NoExc, none |-> b.none, text |-> b.text, logged |-> FALSE]
    ELSE IF CaughtByExceptException(b.exc)
    THEN [exc |-> NoExc, none |-> TRUE, text |-> <<>>, logged |-> TRUE]
    ELSE [exc |-> b.exc, none |-> TRUE, text |-> <<>>, logged |-> FALSE]

get_exif_datetime(f, image_path) == ExifHandler(ExifTryBody(f, Resolve(image_path)))

(***************************************************************************)
(* get_position (lines 28-47).                                             *)
(***************************************************************************)
padding == 20

S_top_left == "top-left"
S_top_center == "top-center"
S_top_right == "top-right"
S_center == "center"
S_bottom_left == "bottom-left"
S_bottom_center == "bottom-center"
S_bottom_right == "bottom-right"

\* argparse choices of --position (lines 112-113)
PositionChoices == {S_top_left, S_top_center, S_top_right, S_center,
                    S_bottom_left, S_bottom_center, S_bottom_right}

\* get_position with the centre computed by halving before subtracting
get_position_halved(img_width, img_height, text_width, text_height, position) ==
    IF position = S_top_left THEN <<padding, padding>>
    ELSE IF position = S_top_right
         THEN <<img_width - text_width - padding, padding>>
    ELSE IF position = S_bottom_left
         THEN <<padding, img_height - text_height - padding>>
    ELSE IF position = S_bottom_right
         THEN <<img_width - text_width - padding, img_height - text_height - padding>>
    ELSE IF position = S_center
         THEN <<img_width \div 2 - text_width \div 2, img_height \div 2 - text_height \div 2>>
    ELSE IF position = S_top_center
         THEN <<img_width \div 2 - text_width \div 2, padding>>
    ELSE IF position = S_bottom_center
         THEN <<img_width \div 2 - text_width \div 2, img_height - text_height - padding>>
    ELSE <<img_width - text_width - padding, img_height - text_height - padding>>

\* get_position with the margin added instead of subtracted at the right edge
get_position_signslip(img_width, img_height, text_width, text_height, position) ==
    IF position = S_top_left THEN <<padding, padding>>
    ELSE IF position = S_top_right
         THEN <<img_width - text_width + padding, padding>>
    ELSE IF position = S_bottom_left
         THEN <<padding, img_height - text_height - padding>>
    ELSE IF position = S_center
         THEN <<(img_width - text_width) \div 2, (img_height - text_height) \div 2>>
    ELSE IF position = S_top_center
         THEN <<(img_width - text_width) \div 2, padding>>
    ELSE IF position = S_bottom_center
         THEN <<(img_width - text_width) \div 2, img_height - text_height - padding>>
    ELSE <<img_width - text_width + padding, img_height - text_height - padding>>

get_position(img_width, img_height, text_width, text_height, position) ==
    IF position = S_top_left THEN <<padding, padding>>
    ELSE IF position = S_top_right
         THEN <<img_width - text_width - padding, padding>>
    ELSE IF position = S_bottom_left
         THEN <<padding, img_height - text_height - padding>>
    ELSE IF position = S_bottom_right
         THEN <<img_width - text_width - padding, img_height - text_height - padding>>
    ELSE IF position = S_center
         THEN <<(img_width - text_width) \div 2, (img_height - text_height) \div 2>>
    ELSE IF position = S_top_center
         THEN <<(img_width - text_width) \div 2, padding>>
    ELSE IF position = S_bottom_center
         THEN <<(img_width - text_width) \div 2, img_height - text_height - padding>>
    ELSE <<img_width - text_width - padding, img_height - text_height - padding>>

(***************************************************************************)
(* add_watermark (lines 50-103).                                           *)
(***************************************************************************)
font_size == 36

\* Lines 67-78: the first font of the chain that is installed, else the
\* built-in font.
FontChain == <<"arial.ttf", "/System/Library/Fonts/Arial.ttf",
               "/usr/share/fonts/truetype/dejavu/DejaVuSans.ttf">>
InstalledFonts == {"/usr/share/fonts/truetype/dejavu/DejaVuSans.ttf"}
LoadFont ==
    IF \E k \in DOMAIN FontChain : FontChain[k] \in InstalledFonts
    THEN FontChain[CHOOSE k \in DOMAIN FontChain :
                      /\ FontChain[k] \in InstalledFonts
                      /\ \A j \in 1..(k-1) : FontChain[j] \notin InstalledFonts]
    ELSE "default"

\* Lines 81-83: draw.textbbox((0, 0), text, font).  The box grows with the
\* number of characters; a scalable font scales it with font_size.
textbbox(text, font) ==
    IF font = "default" THEN <<0, 0, 6 * Len(text), 11>>
    ELSE <<0, 0, (font_size \div 2) * Len(text), font_size>>

\* Line 64: datetime.now().strftime("%Y<U+5E74>%m<U+6708>%d<U+65E5>"); the three
\* CJK characters (year, month, day) are named by their code points.
C_year == "U+5E74"
C_month == "U+6708"
C_day == "U+65E5"
FormatToday(t) ==
    ZeroPad(Str(t[1]), 4) \o <<C_year>> \o ZeroPad(Str(t[2]), 2) \o <<C_month>>
        \o ZeroPad(Str(t[3]), 2) \o <<C_day>>

\* The extension PIL infers the output format from (os.path.splitext, lowered)
SaveExt(path) ==
    LET n == basename(path)
        k == RFind1(n, ".")
    IN  IF k <= 1 THEN <<>> ELSE lower(SubSeq(n, k + 1, Len(n)))

\* Extensions with a registered encoder
RegisteredExtensions ==
    { <<"j","p","g">>, <<"j","p","e","g">>, <<"p","n","g">>, <<"b","m","p">>,
      <<"t","i","f","f">>, <<"w","e","b","p">>, <<"g","i","f">>, <<"t","i","f">> }

\* Line 99: img.save(output_path, quality=95) raises
SaveExc(f, output_path) ==
    IF SaveExt(output_path) \notin RegisteredExtensions THEN "ValueError"
    ELSE IF ~isdir(f, dirname(output_path)) \/ isdir(f, output_path) THEN "OSError"
    ELSE NoExc

\* Lines 102-103: the handler of add_watermark on exception e.  In every
\* result exc is the exception that leaves the function, failed tells whether
\* line 103 logged a failure, saved whether line 99 wrote the output, and fs
\* is the file system afterwards.
RenderFailure(f, e) ==
    [exc |-> IF CaughtByExceptException(e) THEN NoExc ELSE e,
     failed |-> CaughtByExceptException(e), saved |-> FALSE,
     text |-> <<>>, x |-> 0, y |-> 0, fs |-> f]

\* Lines 95-100: the image with the text drawn at xy is saved
SaveImage(f, img, text, xy, sx, output_path) ==
    IF sx # NoExc THEN RenderFailure(f, sx)
    ELSE [exc |-> NoExc, failed |-> FALSE, saved |-> TRUE,
          text |-> text, x |-> xy[1], y |-> xy[2],
          fs |-> (Resolve(output_path) :> ImageEntry(img.w, img.h, NoExif,
                                                      <<text, xy[1], xy[2]>>)) @@ f]

\* Lines 82-93: the text of bounding box bbox is placed and drawn
DrawText(f, img, text, bbox, output_path, position) ==
    SaveImage(f, img, text,
              get_position(img.w, img.h, bbox[3] - bbox[1], bbox[4] - bbox[2], position),
              SaveExc(f, output_path), output_path)

\* Lines 67-81: the font is loaded and the text measured
MeasureText(f, img, text, output_path, position) ==
    DrawText(f, img, text, textbbox(text, LoadFont), output_path, position)

\* Lines 62-65: the watermark text from the outcome dt of get_exif_datetime
ChooseText(f, img, dt, output_path, position, now) ==
    IF dt.exc # NoExc THEN RenderFailure(f, dt.exc)
    ELSE MeasureText(f, img,
                     IF dt.none \/ dt.text = <<>> THEN FormatToday(now) ELSE dt.text,
                     output_path, position)

\* Lines 51-59: the image at resolved path p is opened
OpenImage(f, p, image_path, output_path, position, now) ==
    IF p \notin DOMAIN f \/ f[p].kind # "image" THEN RenderFailure(f, "OSError")
    ELSE ChooseText(f, f[p], get_exif_datetime(f, image_path), output_path,
                    position, now)

add_watermark(f, image_path, output_path, position, now) ==
    OpenImage(f, Resolve(image_path), image_path, output_path, position, now)

(***************************************************************************)
(* main (lines 106-163).                                                   *)
(***************************************************************************)
S_watermark == <<"_","w","a","t","e","r","m","a","r","k">>

\* The output directory written next to the inputs under the inputs' own name
OutputDirInPlace(dir) == dir

\* Line 140: os.path.join(input_dir, f"{os.path.basename(input_dir)}_watermark")
OutputDirOf(dir) == join(dir, basename(dir) \o S_watermark)

\* os.mkdir(name): exc and the file system afterwards
mkdir(f, name) ==
    IF exists(f, name) THEN [exc |-> "FileExistsError", fs |-> f]
    ELSE IF dirname(name) # <<>> /\ ~isdir(f, dirname(name))
         THEN [exc |-> "OSError", fs |-> f]
    ELSE [exc |-> NoExc, fs |-> (Resolve(name) :> DirEntry) @@ f]

\* Line 141: os.makedirs(name, exist_ok=True): missing parents are created
\* first; an existing directory is accepted, any other existing entry is not.
RECURSIVE makedirs(_, _)
makedirs(f, name) ==
    LET head == dirname(name)
        up   == IF head # <<>> /\ head # name /\ ~exists(f, head)
                THEN makedirs(f, head) ELSE [exc |-> NoExc, fs |-> f]
        made == mkdir(up.fs, name)
    IN  IF up.exc # NoExc THEN up
        ELSE IF made.exc # NoExc /\ isdir(up.fs, name) THEN [exc |-> NoExc, fs |-> up.fs]
        ELSE made

\* Lines 119-137: the working sets the input resolution may produce
WorkingSets(f, path) ==
    IF isfile(f, path) THEN { <<path>> }
    ELSE ExtendAll(f, path, Len(image_extensions))

\* Lines 126, 128: input_dir
InputDirOf(f, path) ==
    IF isfile(f, path)
    THEN (IF dirname(path) = <<>> THEN <<".">> ELSE dirname(path))
    ELSE path

Terminated == pc \in {"exited", "crashed", "done"}

\* Validate with the output directory created before the working set is
\* checked for emptiness
ValidateMkdirFirst ==
    /\ pc = "start"
    /\ IF ~exists(fs, argv.image_path)
       THEN /\ pc' = "exited"
            /\ exit_status' = 1
            /\ UNCHANGED <<fs, input_dir, image_files>>
       ELSE \E files \in WorkingSets(fs, argv.image_path) :
            /\ input_dir' = InputDirOf(fs, argv.image_path)
            /\ image_files' = files
            /\ fs' = makedirs(fs, OutputDirOf(InputDirOf(fs, argv.image_path))).fs
            /\ IF files = <<>>
               THEN pc' = "exited" /\ exit_status' = 1
               ELSE pc' = "validated" /\ UNCHANGED exit_status
    /\ UNCHANGED <<argv, today, run, output_dir, idx, success_count, footer,
                   calls, fs_start, prev, pos_call>>

\* Lines 118-137: input validation and resolution of the working set
Validate ==
    /\ pc = "start"
    /\ IF ~exists(fs, argv.image_path)
       THEN /\ pc' = "exited"
            /\ exit_status' = 1
            /\ UNCHANGED <<input_dir, image_files>>
       ELSE \E files \in WorkingSets(fs, argv.image_path) :
            /\ input_dir' = InputDirOf(fs, argv.image_path)
            /\ image_files' = files
            /\ IF files = <<>>
               THEN pc' = "exited" /\ exit_status' = 1
               ELSE pc' = "validated" /\ UNCHANGED exit_status
    /\ UNCHANGED <<fs, argv, today, run, output_dir, idx, success_count, footer,
                   calls, fs_start, prev, pos_call>>

\* Lines 139-149: the output directory is created; an error of makedirs is
\* not handled and ends the process with a traceback (exit status 1)
MakeOutputDir ==
    /\ pc = "validated"
    /\ \E r \in { makedirs(fs, OutputDirOf(input_dir)) } :
           /\ output_dir' = OutputDirOf(input_dir)
           /\ fs' = r.fs
           /\ IF r.exc # NoExc
              THEN pc' = "crashed" /\ exit_status' = 1
              ELSE pc' = "loop" /\ UNCHANGED exit_status
    /\ success_count' = 0
    /\ UNCHANGED <<argv, today, run, input_dir, image_files, idx, footer, calls,
                   fs_start, prev, pos_call>>

\* Lines 156-160: the outcome r of the add_watermark call is counted
CountResult(image_path, output_path, r) ==
    /\ fs' = r.fs
    /\ calls' = Append(calls, [image_path |-> image_path,
                               output_path |-> output_path,
                               failed |-> r.failed \/ r.exc # NoExc,
                               saved |-> r.saved, text |-> r.text,
                               x |-> r.x, y |-> r.y])
    /\ success_count' = IF r.exc = NoExc THEN success_count + 1 ELSE success_count
    /\ IF r.exc # NoExc /\ ~CaughtByExceptException(r.exc)
       THEN pc' = "crashed" /\ exit_status' = 1
       ELSE UNCHANGED <<pc, exit_status>>

\* Lines 152-156: add_watermark is called on image_path
RenderTo(image_path, output_path) ==
    \E r \in { add_watermark(fs, image_path, output_path, argv.position, today) } :
        CountResult(image_path, output_path, r)

\* Lines 150-160: one iteration of the batch loop, add_watermark included
ProcessImage ==
    /\ pc = "loop"
    /\ idx < Len(image_files)
    /\ RenderTo(image_files[idx + 1],
                join(output_dir, basename(image_files[idx + 1])))
    /\ idx' = idx + 1
    /\ UNCHANGED <<argv, today, run, input_dir, image_files, output_dir, footer,
                   fs_start, prev, pos_call>>

\* Lines 162-163: the footer; main returns and the process exits with 0
Finish ==
    /\ pc = "loop"
    /\ idx = Len(image_files)
    /\ footer' = <<success_count, Len(image_files)>>
    /\ pc' = "done"
    /\ exit_status' = 0
    /\ UNCHANGED <<fs, argv, today, run, input_dir, image_files, output_dir, idx,
                   success_count, calls, fs_start, prev, pos_call>>

\* The program is invoked again with the same command line on the file
\* system the previous invocation left, the system date unchanged
Rerun ==
    /\ Terminated
    /\ run < MaxRuns
    /\ run' = run + 1
    /\ prev' = [image_files |-> image_files, fs |-> fs, pc |-> pc]
    /\ fs_start' = fs
    /\ pc' = "start"
    /\ input_dir' = <<>>
    /\ image_files' = <<>>
    /\ output_dir' = <<>>
    /\ idx' = 0
    /\ success_count' = 0
    /\ exit_status' = -1
    /\ footer' = <<>>
    /\ calls' = <<>>
    /\ UNCHANGED <<fs, argv, today, pos_call>>

\* A caller evaluates get_position on the arguments of pos_call
CallGetPosition ==
    /\ pc = "library"
    /\ pos_call.ret = <<>>
    /\ pos_call' = [pos_call EXCEPT !.ret =
           get_position(pos_call.img_width, pos_call.img_height,
                        pos_call.text_width, pos_call.text_height,
                        pos_call.position)]
    /\ UNCHANGED <<fs, argv, today, run, pc, input_dir, image_files, output_dir,
                   idx, success_count, exit_status, footer, calls, fs_start, prev>>

(***************************************************************************)
(* Initial states: the file systems and command lines the program is run   *)
(* on.  The working directory holds the directory "pics" and the image     *)
(* "c.Jpg"; "pics" holds up to MaxFiles entries drawn from a pool.         *)
(***************************************************************************)
N_pics   == <<"p","i","c","s">>
N_a_jpg  == <<"a",".","j","p","g">>
N_b_JPG  == <<"b",".","J","P","G">>
N_c_Jpg  == <<"c",".","J","p","g">>
N_d_txt  == <<"d",".","t","x","t">>
N_e_png  == <<".","e",".","p","n","g">>
N_f_png  == <<"f",".","p","n","g">>
N_g_TIFF == <<"g",".","T","I","F","F">>
N_h_jpg  == <<"h",".","j","p","g">>
N_pics_watermark == N_pics \o S_watermark
N_nope   == <<"n","o","p","e">>

Noon == <<12, 30, 45>>
Dated(y, m, d) == Exif("value", y, m, d, Noon)

PoolNames == {N_a_jpg, N_b_JPG, N_c_Jpg, N_d_txt, N_e_png, N_f_png, N_g_TIFF,
              N_h_jpg, N_pics_watermark}

\* The contents a pool entry may have
PoolContents(n) ==
    IF n = N_a_jpg THEN {ImageEntry(640, 480, Dated(2023, 10, 15), <<>>), DataEntry}
    ELSE IF n = N_f_png THEN {ImageEntry(64, 48, Dated(2024, 1, 5), <<>>), DirEntry}
    ELSE IF n = N_pics_watermark THEN {DirEntry, DataEntry}
    ELSE IF n = N_d_txt THEN {ImageEntry(640, 480, NoExif, <<>>), DataEntry}
    ELSE IF n = N_g_TIFF THEN {ImageEntry(640, 480, Exif("no_method", 0, 0, 0, Noon), <<>>)}
    ELSE {ImageEntry(640, 480, NoExif, <<>>)}

\* The file system with the given entries of "pics"
MakeFs(names, content) ==
    [q \in {<<N_pics>>, <<N_c_Jpg>>} \cup { <<N_pics, n>> : n \in names } |->
        IF q = <<N_pics>> THEN DirEntry
        ELSE IF q = <<N_c_Jpg>> THEN ImageEntry(640, 480, NoExif, <<>>)
        ELSE content[q[2]]]

\* The command lines: a directory, the same with a trailing separator, a
\* file inside it, a file of an unsupported type, a file of the working
\* directory, and a path that does not exist
ArgPaths == {N_pics, N_pics \o <<Sep>>, join(N_pics, N_a_jpg),
             join(N_pics, N_d_txt), N_c_Jpg, N_nope}

IdlePosCall == [img_width |-> 0, img_height |-> 0, text_width |-> 0,
                text_height |-> 0, position |-> "", ret |-> <<0, 0>>]

InitLocals ==
    /\ run = 1
    /\ pc = "start"
    /\ input_dir = <<>>
    /\ image_files = <<>>
    /\ output_dir = <<>>
    /\ idx = 0
    /\ success_count = 0
    /\ exit_status = -1
    /\ footer = <<>>
    /\ calls = <<>>
    /\ fs_start = fs
    /\ prev = [image_files |-> <<>>, fs |-> fs, pc |-> "none"]
    /\ pos_call = IdlePosCall

Init ==
    /\ \E names \in SUBSET PoolNames :
         /\ Cardinality(names) <= MaxFiles
         /\ \E content \in [names -> UNION { PoolContents(n) : n \in PoolNames }] :
              /\ \A n \in names : content[n] \in PoolContents(n)
              /\ fs = MakeFs(names, content)
    /\ argv \in [image_path : ArgPaths, position : PositionChoices]
    /\ today = <<2026, 11, 2>>
    /\ InitLocals

Next == Validate \/ MakeOutputDir \/ ProcessImage \/ Finish \/ Rerun

Spec == Init /\ [][Next]_vars

(***************************************************************************)
(* One image with every EXIF state, processed in file mode and in          *)
(* directory mode.                                                         *)
(***************************************************************************)
ExifStates ==
    { Exif(st, 0, 0, 0, Noon) : st \in {"no_method", "none", "notag", "empty", "garbage"} }
    \cup { Exif("value", y, m, d, t) :
             y \in {2023, 2024}, m \in 0..13,
             d \in {0, 1, 9, 10, 28, 29, 30, 31, 32},
             t \in {Noon, <<24, 0, 0>>} }

InitImage ==
    /\ \E e \in ExifStates : \E c \in {ImageEntry(640, 480, e, <<>>), DataEntry} :
         fs = MakeFs({N_a_jpg}, [n \in {N_a_jpg} |-> c])
    /\ argv \in [image_path : {N_pics, join(N_pics, N_a_jpg)},
                 position : {S_bottom_right}]
    /\ today \in {<<2026, 11, 2>>, <<2027, 1, 5>>}
    /\ InitLocals

SpecImage == InitImage /\ [][Next]_vars

(***************************************************************************)
(* get_position on its own.                                                *)
(***************************************************************************)
Anchors == PositionChoices \cup {"middle", ""}

InitPos ==
    /\ fs = MakeFs({}, <<>>)
    /\ argv = [image_path |-> N_pics, position |-> S_bottom_right]
    /\ today = <<2026, 11, 2>>
    /\ run = 1
    /\ pc = "library"
    /\ input_dir = <<>>
    /\ image_files = <<>>
    /\ output_dir = <<>>
    /\ idx = 0
    /\ success_count = 0
    /\ exit_status = -1
    /\ footer = <<>>
    /\ calls = <<>>
    /\ fs_start = fs
    /\ prev = [image_files |-> <<>>, fs |-> fs, pc |-> "none"]
    /\ pos_call \in [img_width : 1..MaxImg, img_height : 1..MaxImg,
                     text_width : 1..MaxText, text_height : 1..MaxText,
                     position : Anchors, ret : {<<>>}]

NextPos == CallGetPosition

SpecPos == InitPos /\ [][NextPos]_vars

(***************************************************************************)
(* Properties.                                                             *)
(***************************************************************************)
CallPaths == [k \in DOMAIN calls |-> calls[k].image_path]
DirectoryMode == isdir(fs_start, argv.image_path)

\* The extension of a file name: the characters after its last ".", lowered
\* (a name that only starts with "." has none)
ExtensionOf(name) ==
    IF RFind1(name, ".") <= 1 THEN <<>>
    ELSE lower(SubSeq(name, RFind1(name, ".") + 1, Len(name)))

SupportedExtensions ==
    { <<"j","p","g">>, <<"j","p","e","g">>, <<"p","n","g">>, <<"b","m","p">>,
      <<"t","i","f","f">>, <<"w","e","b","p">> }

\* The exit-1 conditions of the input validation
InputInvalid == ~exists(fs_start, argv.image_path) \/ image_files = <<>>

\* The output directory's path is taken by something that is no directory
OutputDirBlocked ==
    /\ exists(fs_start, OutputDirOf(InputDirOf(fs_start, argv.image_path)))
    /\ ~isdir(fs_start, OutputDirOf(InputDirOf(fs_start, argv.image_path)))

\* The EXIF state e holds a capture timestamp that parses
HasCaptureDate(e) == e.state = "value" /\ ValidTimestamp(e.y, e.m, e.d, e.t)

\* YYYY\MM\DD with four-, two- and two-character fields
PaddedDate(y, m, d) ==
    ZeroPad(Str(y), 4) \o <<Backslash>> \o ZeroPad(Str(m), 2)
        \o <<Backslash>> \o ZeroPad(Str(d), 2)

\* The entries of file system f below the directory with components d
EntriesBelow(f, d) ==
    { <<q, f[q]>> : q \in { r \in DOMAIN f : Len(r) > Len(d) /\ SubSeq(r, 1, Len(d)) = d } }

\* C1: when the batch completes, the success count of the footer equals the
\* number of working-set images whose rendering completed without failure.
C1_SuccessCountIsRenderedCount ==
    pc = "done" =>
        footer[1] = Cardinality({ k \in DOMAIN calls : ~calls[k].failed })

\* C2: for the seven anchors and positive sizes with textW <= W and
\* textH <= H, get_position returns 0 <= x <= W - textW and 0 <= y <= H - textH.
C2_TextBoxInsideImage ==
    ( /\ pc = "library"
      /\ pos_call.ret # <<>>
      /\ pos_call.position \in PositionChoices
      /\ pos_call.text_width <= pos_call.img_width
      /\ pos_call.text_height <= pos_call.img_height )
    => /\ 0 <= pos_call.ret[1]
       /\ pos_call.ret[1] <= pos_call.img_width - pos_call.text_width
       /\ 0 <= pos_call.ret[2]
       /\ pos_call.ret[2] <= pos_call.img_height - pos_call.text_height

\* C2 (amended): the same bounds hold when the image leaves room for the margin,
\* W - textW >= 20 and H - textH >= 20.
C2_TextBoxInsideImageWithMargin ==
    ( /\ pc = "library"
      /\ pos_call.ret # <<>>
      /\ pos_call.position \in PositionChoices
      /\ pos_call.img_width - pos_call.text_width >= 20
      /\ pos_call.img_height - pos_call.text_height >= 20 )
    => /\ 0 <= pos_call.ret[1]
       /\ pos_call.ret[1] <= pos_call.img_width - pos_call.text_width
       /\ 0 <= pos_call.ret[2]
       /\ pos_call.ret[2] <= pos_call.img_height - pos_call.text_height

C2_Witness ==
    /\ pc = "library"
    /\ pos_call.ret = <<20, 20>>
    /\ pos_call.position = S_top_left
    /\ pos_call.img_width - pos_call.text_width = 20
    /\ pos_call.img_height - pos_call.text_height = 20

C3_LoopSafety ==
    /\ pc \in {"loop", "done"} =>
          /\ idx = Len(calls)
          /\ idx <= Len(image_files)
          /\ CallPaths = SubSeq(image_files, 1, idx)
    /\ pc = "done" =>
          /\ CallPaths = image_files
          /\ footer = <<success_count, Len(image_files)>>
          /\ exit_status = 0
    /\ pc = "crashed" =>
          /\ OutputDirBlocked
          /\ calls = <<>>
          /\ exit_status = 1

C5_WorkingSetIsSupportedFiles ==
    (DirectoryMode /\ pc # "start") =>
        /\ \A a, b \in DOMAIN image_files : image_files[a] = image_files[b] => a = b
        /\ Range(image_files) =
             { join(argv.image_path, n) :
                 n \in { m \in Listing(fs_start, Resolve(argv.image_path)) :
                           /\ isfile(fs_start, join(argv.image_path, m))
                           /\ ExtensionOf(m) \in SupportedExtensions } }

\* C6: every file the run writes lies directly under the one output
\* directory <input_dir>/<basename(input_dir)>_watermark, carries the file
\* name of exactly one file of the working set, and no file of the working
\* set is written to.
C6_OutputsUnderOutputDir ==
    LET dir == Resolve(input_dir) \o <<basename(input_dir) \o S_watermark>>
    IN  /\ \A k \in DOMAIN calls :
              calls[k].saved =>
                  LET out == Resolve(calls[k].output_path)
                  IN  /\ Len(out) = Len(dir) + 1
                      /\ SubSeq(out, 1, Len(dir)) = dir
                      /\ Cardinality({ j \in DOMAIN image_files :
                                         basename(image_files[j]) = out[Len(out)] }) = 1
                      /\ \A j \in DOMAIN image_files : Resolve(image_files[j]) # out
        /\ \A q \in DOMAIN fs :
              (q \notin DOMAIN fs_start \/ fs[q] # fs_start[q]) =>
                  /\ SubSeq(q, 1, Len(dir)) = dir
                  /\ Len(q) <= Len(dir) + 1
        /\ \A j \in DOMAIN image_files :
              /\ Resolve(image_files[j]) \in DOMAIN fs
              /\ fs[Resolve(image_files[j])] = fs_start[Resolve(image_files[j])]
        /\ DOMAIN fs_start \subseteq DOMAIN fs

C6_Witness ==
    /\ pc = "done"
    /\ run = 1
    /\ Len(calls) >= 2
    /\ calls[1].saved
    /\ calls[2].saved
    /\ Resolve(calls[1].output_path) \in DOMAIN fs
    /\ Resolve(calls[1].output_path) \notin DOMAIN fs_start

\* C7: an image with a parseable capture timestamp is marked with that date
\* as YYYY\MM\DD, month and day two characters each; an image with no
\* available date is marked with the current date, year, month and day
\* each followed by its CJK character.
C7_WatermarkTextFormat ==
    \A k \in DOMAIN calls :
        calls[k].saved =>
            LET e == fs_start[Resolve(calls[k].image_path)].exif
            IN  IF HasCaptureDate(e)
                THEN calls[k].text = PaddedDate(e.y, e.m, e.d)
                ELSE calls[k].text =
                        ZeroPad(Str(today[1]), 4) \o <<C_year>>
                        \o ZeroPad(Str(today[2]), 2) \o <<C_month>>
                        \o ZeroPad(Str(today[3]), 2) \o <<C_day>>

\* C8: a second run on the same input, nothing changed in between, has the
\* working set of the first (as a set of paths) and leaves the output
\* directory with the same file names, each with the same watermark text
\* at the same position.
C8_SecondRunSame ==
    (run >= 2 /\ Terminated) =>
        /\ Range(image_files) = Range(prev.image_files)
        /\ Len(image_files) = Len(prev.image_files)
        /\ EntriesBelow(fs, Resolve(OutputDirOf(InputDirOf(fs, argv.image_path))))
             = EntriesBelow(prev.fs, Resolve(OutputDirOf(InputDirOf(fs, argv.image_path))))

C8_Witness ==
    /\ run = 2
    /\ pc = "done"
    /\ DirectoryMode
    /\ Len(image_files) >= 2
    /\ \E k \in DOMAIN calls :
          /\ calls[k].saved
          /\ HasCaptureDate(fs_start[Resolve(calls[k].image_path)].exif)
    /\ EntriesBelow(fs, Resolve(output_dir)) # {}

\* The paths get_exif_datetime is evaluated on: a file, a directory, a file
\* of the working directory and a missing path
ExifProbePaths == {join(N_pics, N_a_jpg), N_pics, N_c_Jpg, N_nope}

\* C10: get_exif_datetime never raises: without a usable capture date
\* (tag absent or empty, no metadata, a timestamp that does not parse, a
\* file that cannot be opened) it returns no date; an image that opens but
\* has no usable capture date is rendered with the current-date text and is
\* not a failed item.
C10_ExifNeverRaises ==
    /\ \A path \in ExifProbePaths :
          /\ get_exif_datetime(fs, path).exc = NoExc
          /\ ( \/ Resolve(path) \notin DOMAIN fs
               \/ fs[Resolve(path)].kind # "image"
               \/ ~HasCaptureDate(fs[Resolve(path)].exif) )
             => get_exif_datetime(fs, path).none
    /\ \A k \in DOMAIN calls :
          ( /\ fs_start[Resolve(calls[k].image_path)].kind = "image"
            /\ ~HasCaptureDate(fs_start[Resolve(calls[k].image_path)].exif) )
          => /\ calls[k].saved
             /\ ~calls[k].failed
             /\ calls[k].text = FormatToday(today)

C10_Witness ==
    /\ pc = "done"
    /\ Len(calls) = 1
    /\ calls[1].saved
    /\ fs_start[Resolve(calls[1].image_path)].exif.state = "value"
    /\ fs_start[Resolve(calls[1].image_path)].exif.m = 13
    /\ calls[1].text = FormatToday(today)
    /\ get_exif_datetime(fs_start, calls[1].image_path).none

\* C9: get_position returns the coordinates of the anchor table, margin 20
\* and floor division, and the bottom-right pair for any other anchor.
C9_AnchorTable ==
    (pc = "library" /\ pos_call.ret # <<>>) =>
        LET dw == pos_call.img_width - pos_call.text_width
            dh == pos_call.img_height - pos_call.text_height
            a  == pos_call.position
            \* floor division by two
            Half(n) == CHOOSE q \in -MaxImg - MaxText..MaxImg + MaxText :
                           2 * q <= n /\ n < 2 * q + 2
        IN  pos_call.ret =
              CASE a = "top-left"      -> <<20, 20>>
                [] a = "top-center"    -> <<Half(dw), 20>>
                [] a = "top-right"     -> <<dw - 20, 20>>
                [] a = "center"        -> <<Half(dw), Half(dh)>>
                [] a = "bottom-left"   -> <<20, dh - 20>>
                [] a = "bottom-center" -> <<Half(dw), dh - 20>>
                [] OTHER               -> <<dw - 20, dh - 20>>

C9_Witness ==
    /\ pc = "library"
    /\ pos_call.ret # <<>>
    /\ pos_call.position = "center"
    /\ pos_call.img_width - pos_call.text_width = -1
    /\ pos_call.ret[1] = -1

====
